---------------------------- MODULE Spec2Model ----------------------------
(***************************************************************************)
(* Model of pdf2text_mistral.py: a Streamlit script that rasterises an     *)
(* uploaded PDF, publishes every page image to ImgBB, runs Mistral OCR on  *)
(* the published URL and accumulates the page texts, with a retry wrapper  *)
(* around both remote calls and a session cache (st.session_state) that    *)
(* survives script reruns.  A second flow runs OCR on pasted image URLs.   *)
(*                                                                         *)
(* One script run is modelled as a sequence of steps; every remote call    *)
(* (one execution of the retried task) is one step whose outcome is chosen *)
(* by the environment.                                                     *)
(***************************************************************************)
EXTENDS Integers, Sequences, FiniteSets, TLC

(***************************************************************************)
(* Bounds of the model.                                                    *)
(***************************************************************************)
\* number of distinct valid PDF documents a user may upload
NumDocs == 3
\* largest page count of a document
MaxPages == 3
\* largest max_attempts argument tried on retry() in isolation
MaxAttemptsArg == 3
\* largest delay argument tried on retry() in isolation
MaxDelayArg == 2
\* largest number of comma/newline separated entries typed in the URL box
MaxEntries == 3
\* number of script runs of a metered session
MaxRuns == 2

(***************************************************************************)
(* Program constants.                                                      *)
(***************************************************************************)
\* def retry(func, max_attempts=3, delay=2)
DefaultMaxAttempts == 3
DefaultDelay == 2

(***************************************************************************)
(* Values.                                                                 *)
(***************************************************************************)
Docs == 1..NumDocs

\* page count of document d: the catalogue holds documents of every size
\* 1..MaxPages, and two documents of one page
PageCount(d) == ((d - 1) % MaxPages) + 1

\* what the file uploader holds in a script run
NoFile == [kind |-> "none", id |-> 0]
CorruptFile == [kind |-> "corrupt", id |-> 0]
PdfFile(d) == [kind |-> "pdf", id |-> d]
Files == {NoFile, CorruptFile} \cup {PdfFile(d) : d \in Docs}

\* what datetime.now().strftime("%Y%m%d_%H%M%S") may give.  Directories are
\* only ever compared for equality and at most two exist in a state (the
\* one the images lie in, the one the starting run makes): two names do
Stamps == {"second_a", "second_b"}

\* os.path.join("output_images", f"pdf_{timestamp}"); NoDir in a run
\* without an uploaded file, which makes no directory
OutputDir(stamp) == [kind |-> "dir", stamp |-> stamp]
NoDir == [kind |-> "nodir", stamp |-> "none"]

\* the file page_{n}.png of directory dir, rendered from page p of document d
Image(dir, n, d, p) == [kind |-> "img", dir |-> dir, name |-> n, doc |-> d, page |-> p]
\* the public URL ImgBB returns for an image
UrlOf(img) == [kind |-> "url", doc |-> img.doc, page |-> img.page]
\* the markdown Mistral OCR returns for the image behind a URL
TextOf(url) == [kind |-> "txt", doc |-> url.doc, page |-> url.page]

NoValue == [kind |-> "none"]

\* outcome of one execution of a retried task
Ok(v) == [ok |-> TRUE, val |-> v, err |-> "none"]
Fail(e) == [ok |-> FALSE, val |-> NoValue, err |-> e]

VARIABLES
    \* the credentials read from the environment when the script starts
    api_key, imgbb_api_key,
    \* st.session_state
    images, imgbb_urls, ocr_texts,
    \* the script run in progress
    pc, uploaded, i, full_text, presented, recovered, resumeShown,
    \* what st.button("Run OCR") returns in this run
    runOcr,
    \* the directory pdf_<timestamp> the run writes its page images to
    output_dir,
    \* a meter of the current run's remote calls and waits (switched off in
    \* the specifications that do not read it)
    meter,
    \* the frame of the retry() call in progress
    retry,
    \* observation of the run: pages for which a publish / recognize call
    \* was made, the page that failed, whether any remote call failed,
    \* the cache as it was when the run started, the previous pipeline run
    pubCalled, recCalled, failedPage, runFailures, startUrls, startTexts, prev,
    \* the "Paste Image URL" flow: what was typed (entries and separators),
    \* the text area's content, the filtered list, the 1-based loop index,
    \* what was displayed per URL, the warning, the indices OCR was called for
    typed, image_urls, urls, idx, urlOutputs, warned, urlCalled

vars == <<api_key, imgbb_api_key, images, imgbb_urls, ocr_texts, pc, uploaded, i, full_text, presented,
          recovered, resumeShown, runOcr, output_dir, meter, retry, pubCalled, recCalled, failedPage,
          runFailures, startUrls, startTexts, prev,
          typed, image_urls, urls, idx, urlOutputs, warned, urlCalled>>

envVars == <<api_key, imgbb_api_key>>
runInputs == <<runOcr, output_dir>>
urlVars == <<typed, image_urls, urls, idx, urlOutputs, warned, urlCalled>>
sessionVars == <<images, imgbb_urls, ocr_texts>>
obsVars == <<pubCalled, recCalled, failedPage, runFailures, startUrls, startTexts, prev>>

(***************************************************************************)
(* retry(func, max_attempts, delay)                                        *)
(***************************************************************************)
IdleFrame ==
    [status |-> "idle", attempt |-> 0, max |-> 0, delay |-> 0, log |-> <<>>,
     slept |-> 0, sleeps |-> 0, trace |-> <<>>, value |-> NoValue, error |-> "none"]

\* entering retry: the for loop starts at attempt 1; range(1, max_attempts + 1)
\* is empty when max_attempts < 1 and the function falls through, returning None
NewFrame(m, d) ==
    [status |-> IF m >= 1 THEN "running" ELSE "returned",
     attempt |-> 1, max |-> m, delay |-> d, log |-> <<>>,
     slept |-> 0, sleeps |-> 0, trace |-> <<>>, value |-> NoValue, error |-> "none"]

\* variant of RetryStep: a success does not leave the loop while attempts remain
RetryStep_NoReturn(fr, out) ==
    IF out.ok /\ fr.attempt = fr.max
    THEN [fr EXCEPT !.status = "returned", !.value = out.val,
                    !.log = Append(@, out),
                         !.trace = Append(@, "call")]
    ELSE IF fr.attempt = fr.max
         THEN [fr EXCEPT !.status = "raised", !.error = out.err,
                         !.log = Append(@, out),
                         !.trace = Append(@, "call")]
         ELSE [fr EXCEPT !.attempt = @ + 1, !.slept = @ + fr.delay,
                         !.sleeps = @ + 1, !.trace = @ \o <<"call", "sleep">>,
                         !.log = Append(@, out)]

\* variant of RetryStep: the last failure is swallowed, retry returns None
RetryStep_Swallow(fr, out) ==
    IF out.ok
    THEN [fr EXCEPT !.status = "returned", !.value = out.val,
                    !.log = Append(@, out),
                         !.trace = Append(@, "call")]
    ELSE IF fr.attempt = fr.max
         THEN [fr EXCEPT !.status = "returned", !.log = Append(@, out),
                         !.trace = Append(@, "call")]
         ELSE [fr EXCEPT !.attempt = @ + 1, !.slept = @ + fr.delay,
                         !.sleeps = @ + 1, !.trace = @ \o <<"call", "sleep">>,
                         !.log = Append(@, out)]

\* variant of RetryStep: time.sleep(delay) runs after every failure, the last included
RetryStep_SleepAlways(fr, out) ==
    IF out.ok
    THEN [fr EXCEPT !.status = "returned", !.value = out.val,
                    !.log = Append(@, out), !.trace = Append(@, "call")]
    ELSE IF fr.attempt = fr.max
         THEN [fr EXCEPT !.status = "raised", !.error = out.err,
                         !.slept = @ + fr.delay,
                         !.sleeps = @ + 1, !.trace = @ \o <<"call", "sleep">>,
                         !.log = Append(@, out)]
         ELSE [fr EXCEPT !.attempt = @ + 1, !.slept = @ + fr.delay,
                         !.sleeps = @ + 1, !.trace = @ \o <<"call", "sleep">>,
                         !.log = Append(@, out)]

\* variant of RetryStep: the loop runs to attempt max_attempts + 1
RetryStep_OneMore(fr, out) ==
    IF out.ok
    THEN [fr EXCEPT !.status = "returned", !.value = out.val,
                    !.log = Append(@, out), !.trace = Append(@, "call")]
    ELSE IF fr.attempt = fr.max + 1
         THEN [fr EXCEPT !.status = "raised", !.error = out.err,
                         !.log = Append(@, out), !.trace = Append(@, "call")]
         ELSE [fr EXCEPT !.attempt = @ + 1, !.slept = @ + fr.delay,
                         !.sleeps = @ + 1, !.trace = @ \o <<"call", "sleep">>,
                         !.log = Append(@, out)]

\* one iteration of the for loop, func() having produced `out`
RetryStep(fr, out) ==
    IF out.ok
    THEN [fr EXCEPT !.status = "returned", !.value = out.val,
                    !.log = Append(@, out),
                         !.trace = Append(@, "call")]
    ELSE IF fr.attempt = fr.max
         THEN [fr EXCEPT !.status = "raised", !.error = out.err,
                         !.log = Append(@, out),
                         !.trace = Append(@, "call")]
         ELSE [fr EXCEPT !.attempt = @ + 1, !.slept = @ + fr.delay,
                         !.sleeps = @ + 1, !.trace = @ \o <<"call", "sleep">>,
                         !.log = Append(@, out)]


(***************************************************************************)
(* The meter: per page of the current run the retry() calls made by        *)
(* upload_image_to_imgbb and by run_ocr_on_image_url, and the run's task   *)
(* executions and time.sleep calls.                                        *)
(***************************************************************************)
MeterOff == [on |-> FALSE]

\* the meter of the run-th script run, nothing called yet
MeterZero(run) ==
    [on |-> TRUE, runs |-> run,
     pub |-> [p \in 1..MaxPages |-> 0], rec |-> [p \in 1..MaxPages |-> 0],
     calls |-> 0, waits |-> 0]

\* a script run starts
MeterStart(m) == IF m.on THEN MeterZero(m.runs + 1) ELSE m

\* retry(task) is entered for page p by the function of `kind`
MeterEnter(m, kind, p) == IF m.on THEN [m EXCEPT ![kind][p] = @ + 1] ELSE m

\* task() was executed once, followed by `sleeps` waits
MeterCall(m, sleeps) ==
    IF m.on THEN [m EXCEPT !.calls = @ + 1, !.waits = @ + sleeps] ELSE m

(***************************************************************************)
(* The remote tasks.                                                       *)
(***************************************************************************)
\* what the ImgBB endpoint can do with one POST of image img: the request
\* itself raises, or a JSON body comes back with its "success" flag
\* (never with success = true for a request that carries no key)
ImgbbResponses(img) ==
    { [raised |-> TRUE, success |-> FALSE, url |-> NoValue],
      [raised |-> FALSE, success |-> FALSE, url |-> NoValue] }
    \cup (IF imgbb_api_key = "set"
          THEN { [raised |-> FALSE, success |-> TRUE, url |-> UrlOf(img)] }
          ELSE {})

\* variant of UploadTask: the "success" flag of the response is not looked at
UploadTask_IgnoreFlag(resp) ==
    IF resp.raised THEN Fail("request_error") ELSE Ok(resp.url)

\* task() of upload_image_to_imgbb
UploadTask(resp) ==
    IF resp.raised THEN Fail("request_error")
    ELSE IF ~resp.success THEN Fail("upload_failed")
    ELSE Ok(resp.url)

\* what client.ocr.process can do for one URL: raise, or return the pages
\* (it raises for a client built without a key)
OcrResponses(url) ==
    { [raised |-> TRUE, text |-> NoValue] }
    \cup (IF api_key = "set" THEN { [raised |-> FALSE, text |-> TextOf(url)] } ELSE {})

\* task() of run_ocr_on_image_url
OcrTask(resp) ==
    IF resp.raised THEN Fail("ocr_error") ELSE Ok(resp.text)

(***************************************************************************)
(* Pure helpers of the PDF flow.                                           *)
(***************************************************************************)
\* variant of convert_pdf_to_images: the file name carries the 0-based index
convert_pdf_to_images_ZeroBased(d, dir) ==
    [k \in 1..PageCount(d) |-> Image(dir, k - 1, d, k)]

\* convert_pdf_to_images: for i, page in enumerate(doc), page_{i+1}.png of
\* output_dir is written and appended; k - 1 is the 0-based index i
convert_pdf_to_images(d, dir) ==
    [k \in 1..PageCount(d) |-> Image(dir, (k - 1) + 1, d, k)]

\* variant of PageIsCached: the last recorded page is not taken from the cache
PageIsCached_OffByOne(n, cache) == n + 1 < Len(cache)

\* variant of PageIsCached: the cache is never used
PageIsCached_Never(n, cache) == FALSE

\* the cache test of the page loop; n is the 0-based loop index
PageIsCached(n, cache) == n < Len(cache)

\* variant of AppendSection: the marker carries the 0-based loop index
AppendSection_ZeroBased(ft, n, result) == Append(ft, [page |-> n, text |-> result])

\* full_text += f"\n\n--- Page {i+1} ---\n\n{result}"
AppendSection(ft, n, result) == Append(ft, [page |-> n + 1, text |-> result])

Min(a, b) == IF a <= b THEN a ELSE b

\* variant of Record: the new entry takes the place of the list's last one
Record_Replace(list, entry) ==
    IF list = <<>> THEN <<entry>> ELSE [list EXCEPT ![Len(list)] = entry]

\* st.session_state.imgbb_urls.append(...), st.session_state.ocr_texts.append(...)
Record(list, entry) == Append(list, entry)

\* the Resume button's text: one section per (url, text) pair of zip()
ResumeText(us, ts) ==
    [k \in 1..Min(Len(us), Len(ts)) |-> [page |-> k, text |-> ts[k]]]

NoOutput == [shown |-> FALSE, text |-> <<>>]
Output(ft) == [shown |-> TRUE, text |-> ft]

\* no earlier pipeline run the run now starting can be compared with
NoPrev == [ran |-> FALSE]

\* the record kept of a finished pipeline run: of a run in which a remote
\* call failed only that it did, and on which document
RunRecord ==
    IF runFailures
    THEN [ran |-> TRUE, doc |-> uploaded, failures |-> TRUE]
    ELSE [ran |-> TRUE, doc |-> uploaded, failures |-> FALSE,
          ended |-> pc, result |-> full_text, shown |-> presented,
          urls |-> imgbb_urls, texts |-> ocr_texts,
          pub |-> pubCalled, rec |-> recCalled]

\* the last pipeline run of the session, as the run now starting finds it
LastRun == IF uploaded.kind = "none" THEN prev ELSE RunRecord

\* a run over `file` can be compared with the earlier run r: r saw no remote
\* failure and was over the same document
Comparable(r, file) == r.ran /\ ~r.failures /\ r.doc = file

(***************************************************************************)
(* Initial state: a fresh session, the three lists created empty.          *)
(***************************************************************************)
RunInit ==
    /\ pc = "idle"
    /\ uploaded = NoFile
    /\ i = 0
    /\ full_text = <<>>
    /\ presented = NoOutput
    /\ recovered = NoOutput
    /\ resumeShown = FALSE
    /\ runOcr = FALSE
    /\ output_dir = NoDir
    /\ retry = IdleFrame
    /\ pubCalled = {}
    /\ recCalled = {}
    /\ failedPage = 0
    /\ runFailures = FALSE
    /\ startUrls = <<>>
    /\ startTexts = <<>>
    /\ prev = NoPrev

\* os.getenv gives the value of a variable that is set, None otherwise
KeyValues == {"set", "unset"}

\* a deployment with both credentials in its environment
EnvInit ==
    /\ api_key = "set"
    /\ imgbb_api_key = "set"

UrlInit ==
    /\ typed = <<>>
    /\ image_urls = <<>>
    /\ urls = <<>>
    /\ idx = 0
    /\ urlOutputs = <<>>
    /\ warned = FALSE
    /\ urlCalled = {}

Init ==
    /\ EnvInit
    /\ images = <<>>
    /\ imgbb_urls = <<>>
    /\ ocr_texts = <<>>
    /\ RunInit
    /\ UrlInit
    /\ meter = MeterOff

(***************************************************************************)
(* A script run with the "Upload PDF" input type.                          *)
(***************************************************************************)
\* a script run has ended: at its last line, or with an uncaught IndexError
\* or document error ("crashed"), or with the NameError of the Run OCR
\* handler ("name_error")
RunOver == pc \in {"idle", "done", "crashed", "name_error"}

\* the previous script run came to line 139 and drew the Run OCR button
ButtonShown == pc \in {"done", "name_error"}

\* if st.button("Run OCR"): at the top level of the script, after the
\* "Upload PDF" branch, in which image_urls is never assigned
AfterPdfBranch(clicked) == IF clicked THEN "name_error" ELSE "done"

\* Resume Previous Session, whichever input type is selected: the button is
\* drawn if images and ocr_texts are both non-empty; `click` says the button
\* drawn by the previous run was pressed
ResumeButton(click) ==
    /\ click => resumeShown
    /\ LET shown == images # <<>> /\ ocr_texts # <<>> IN
         /\ resumeShown' = shown
         /\ recovered' = IF shown /\ click
                         THEN Output(ResumeText(imgbb_urls, ocr_texts))
                         ELSE NoOutput

\* a script run that does not enter the "Paste Image URL" branch: what an
\* earlier run of that branch computed and showed is gone, the text typed
\* into the (now hidden) text area is the widget's to keep
NoUrlRun ==
    /\ UNCHANGED typed
    /\ image_urls' = <<>>
    /\ urls' = <<>>
    /\ idx' = 0
    /\ urlOutputs' = <<>>
    /\ warned' = FALSE
    /\ urlCalled' = {}

\* a script run that does not enter the "Upload PDF" branch: no file, no
\* page loop, no calls of it
NoPdfRun ==
    /\ uploaded' = NoFile
    /\ i' = 0
    /\ full_text' = <<>>
    /\ presented' = NoOutput
    /\ pubCalled' = {}
    /\ recCalled' = {}
    /\ failedPage' = 0
    /\ runFailures' = FALSE
    /\ startUrls' = imgbb_urls
    /\ startTexts' = ocr_texts
    /\ prev' = LastRun

\* The script starts (any widget interaction reruns it): session init, the
\* Resume button, and the file uploader holding `file`.  `click` says the
\* Resume button, drawn by the previous run, was pressed; `ocrClick` says
\* the Run OCR button, drawn by the previous run, was pressed; `now` is
\* the second the clock shows.
StartRun(file, click, ocrClick, now) ==
    /\ UNCHANGED envVars
    /\ RunOver
    /\ meter.on => meter.runs < MaxRuns
    /\ meter' = MeterStart(meter)
    /\ ResumeButton(click)
    /\ NoUrlRun
    /\ ocrClick => ButtonShown
    /\ runOcr' = ocrClick
    /\ output_dir' = IF file.kind = "none" THEN NoDir ELSE OutputDir(now)
    /\ uploaded' = file
    /\ pc' = IF file.kind = "none" THEN AfterPdfBranch(ocrClick) ELSE "convert"
    /\ i' = 0
    /\ full_text' = <<>>
    /\ presented' = NoOutput
    /\ retry' = IdleFrame
    /\ pubCalled' = {}
    /\ recCalled' = {}
    /\ failedPage' = 0
    /\ runFailures' = FALSE
    /\ startUrls' = imgbb_urls
    /\ startTexts' = ocr_texts
    /\ prev' = IF file.kind = "none" \/ Comparable(LastRun, file) THEN LastRun ELSE NoPrev
    /\ UNCHANGED sessionVars

\* st.session_state.images = convert_pdf_to_images(...); full_text = ""
ConvertPdf ==
    /\ UNCHANGED envVars
    /\ UNCHANGED meter
    /\ UNCHANGED runInputs
    /\ UNCHANGED urlVars
    /\ pc = "convert"
    /\ uploaded.kind = "pdf"
    /\ images' = convert_pdf_to_images(uploaded.id, output_dir)
    /\ pc' = "loop"
    /\ UNCHANGED <<imgbb_urls, ocr_texts, uploaded, i, full_text, presented,
                   recovered, resumeShown, retry>>
    /\ UNCHANGED obsVars

\* fitz.open raises on a file that is no PDF: the run ends with the error
ConvertFails ==
    /\ UNCHANGED envVars
    /\ UNCHANGED meter
    /\ UNCHANGED runInputs
    /\ UNCHANGED urlVars
    /\ pc = "convert"
    /\ uploaded.kind = "corrupt"
    /\ pc' = "crashed"
    /\ UNCHANGED <<uploaded, i, full_text, presented, recovered, resumeShown, retry>>
    /\ UNCHANGED sessionVars
    /\ UNCHANGED obsVars

\* loop body, cached branch: img_url = imgbb_urls[i]; result = ocr_texts[i]
PageCached ==
    /\ UNCHANGED envVars
    /\ UNCHANGED meter
    /\ UNCHANGED runInputs
    /\ UNCHANGED urlVars
    /\ pc = "loop"
    /\ i < Len(images)
    /\ PageIsCached(i, imgbb_urls)
    /\ i < Len(ocr_texts)
    /\ full_text' = AppendSection(full_text, i, ocr_texts[i + 1])
    /\ i' = i + 1
    /\ UNCHANGED <<pc, uploaded, presented, recovered, resumeShown, retry>>
    /\ UNCHANGED sessionVars
    /\ UNCHANGED obsVars

\* loop body, cached branch, ocr_texts[i] out of range: IndexError, raised
\* outside the try block, ends the script run
PageIndexError ==
    /\ UNCHANGED envVars
    /\ UNCHANGED meter
    /\ UNCHANGED runInputs
    /\ UNCHANGED urlVars
    /\ pc = "loop"
    /\ i < Len(images)
    /\ PageIsCached(i, imgbb_urls)
    /\ i >= Len(ocr_texts)
    /\ pc' = "crashed"
    /\ UNCHANGED <<uploaded, i, full_text, presented, recovered, resumeShown, retry>>
    /\ UNCHANGED sessionVars
    /\ UNCHANGED obsVars

\* loop body, else branch: upload_image_to_imgbb(img_path) enters retry(task)
PageBeginUpload ==
    /\ UNCHANGED envVars
    /\ UNCHANGED runInputs
    /\ UNCHANGED urlVars
    /\ pc = "loop"
    /\ i < Len(images)
    /\ ~PageIsCached(i, imgbb_urls)
    /\ meter' = MeterEnter(meter, "pub", i + 1)
    /\ pc' = "upload"
    /\ retry' = NewFrame(DefaultMaxAttempts, DefaultDelay)
    /\ UNCHANGED <<uploaded, i, full_text, presented, recovered, resumeShown>>
    /\ UNCHANGED sessionVars
    /\ UNCHANGED obsVars

\* variant of PageFailed: the error is reported and the loop goes on
PageFailed_NoBreak ==
    /\ pc' = "loop"
    /\ failedPage' = i + 1
    /\ retry' = IdleFrame

\* the except branch of the page loop: st.error(...); break
PageFailed ==
    /\ pc' = "present"
    /\ failedPage' = i + 1
    /\ retry' = IdleFrame

\* one execution of the upload task under retry
UploadAttempt ==
    /\ UNCHANGED envVars
    /\ UNCHANGED runInputs
    /\ UNCHANGED urlVars
    /\ pc = "upload"
    /\ retry.status = "running"
    /\ \E resp \in ImgbbResponses(images[i + 1]) :
         LET out == UploadTask(resp)
             fr == RetryStep(retry, out)
         IN /\ pubCalled' = pubCalled \cup {i + 1}
            /\ meter' = IF fr.status = "returned"
                        THEN MeterEnter(MeterCall(meter, 0), "rec", i + 1)
                        ELSE MeterCall(meter, fr.sleeps - retry.sleeps)
            /\ runFailures' = (runFailures \/ ~out.ok)
            /\ CASE fr.status = "returned" ->
                      \* imgbb_urls.append(img_url); run_ocr_on_image_url enters retry
                      /\ imgbb_urls' = Record(imgbb_urls, fr.value)
                      /\ pc' = "ocr"
                      /\ retry' = NewFrame(DefaultMaxAttempts, DefaultDelay)
                      /\ UNCHANGED failedPage
                 [] fr.status = "raised" ->
                      /\ PageFailed
                      /\ UNCHANGED imgbb_urls
                 [] OTHER ->
                      /\ retry' = fr
                      /\ UNCHANGED <<pc, imgbb_urls, failedPage>>
    /\ UNCHANGED <<images, ocr_texts, uploaded, i, full_text, presented,
                   recovered, resumeShown>>
    /\ UNCHANGED <<recCalled, startUrls, startTexts, prev>>

\* one execution of the OCR task under retry, on the URL just recorded
OcrAttempt ==
    /\ UNCHANGED envVars
    /\ UNCHANGED runInputs
    /\ UNCHANGED urlVars
    /\ pc = "ocr"
    /\ retry.status = "running"
    /\ \E resp \in OcrResponses(imgbb_urls[Len(imgbb_urls)]) :
         LET out == OcrTask(resp)
             fr == RetryStep(retry, out)
         IN /\ recCalled' = recCalled \cup {i + 1}
            /\ meter' = MeterCall(meter, fr.sleeps - retry.sleeps)
            /\ runFailures' = (runFailures \/ ~out.ok)
            /\ CASE fr.status = "returned" ->
                      \* ocr_texts.append(result); full_text += ...; next page
                      /\ ocr_texts' = Record(ocr_texts, fr.value)
                      /\ full_text' = AppendSection(full_text, i, fr.value)
                      /\ i' = i + 1
                      /\ pc' = "loop"
                      /\ retry' = IdleFrame
                      /\ UNCHANGED failedPage
                 [] fr.status = "raised" ->
                      /\ PageFailed
                      /\ UNCHANGED <<ocr_texts, full_text, i>>
                 [] OTHER ->
                      /\ retry' = fr
                      /\ UNCHANGED <<pc, ocr_texts, full_text, i, failedPage>>
    /\ UNCHANGED <<images, imgbb_urls, uploaded, presented, recovered, resumeShown>>
    /\ UNCHANGED <<pubCalled, startUrls, startTexts, prev>>

\* the for loop has run through every image
LoopExit ==
    /\ UNCHANGED envVars
    /\ UNCHANGED meter
    /\ UNCHANGED runInputs
    /\ UNCHANGED urlVars
    /\ pc = "loop"
    /\ i >= Len(images)
    /\ pc' = "present"
    /\ UNCHANGED <<uploaded, i, full_text, presented, recovered, resumeShown, retry>>
    /\ UNCHANGED sessionVars
    /\ UNCHANGED obsVars

\* if full_text: show it and offer the download; then the Run OCR button
Present ==
    /\ UNCHANGED envVars
    /\ UNCHANGED meter
    /\ UNCHANGED runInputs
    /\ UNCHANGED urlVars
    /\ pc = "present"
    /\ presented' = IF full_text # <<>> THEN Output(full_text) ELSE NoOutput
    /\ pc' = AfterPdfBranch(runOcr)
    /\ UNCHANGED <<uploaded, i, full_text, recovered, resumeShown, retry>>
    /\ UNCHANGED sessionVars
    /\ UNCHANGED obsVars

Next ==
    \/ \E file \in Files, click \in BOOLEAN, ocrClick \in BOOLEAN, now \in Stamps :
          StartRun(file, click, ocrClick, now)
    \/ ConvertPdf
    \/ ConvertFails
    \/ PageCached
    \/ PageIndexError
    \/ PageBeginUpload
    \/ UploadAttempt
    \/ OcrAttempt
    \/ LoopExit
    \/ Present

Spec == Init /\ [][Next]_vars

\* the same script in any environment: either credential may be missing;
\* api_key = os.getenv(...), client = Mistral(api_key=api_key) and
\* imgbb_api_key = os.getenv(...) run without a test of the values
InitConfig ==
    /\ api_key \in KeyValues
    /\ imgbb_api_key \in KeyValues
    /\ images = <<>>
    /\ imgbb_urls = <<>>
    /\ ocr_texts = <<>>
    /\ RunInit
    /\ UrlInit
    /\ meter = MeterOff

SpecConfig == InitConfig /\ [][Next]_vars


(***************************************************************************)
(* retry() in isolation: any max_attempts and delay a caller may pass, on  *)
(* an operation whose every call returns some value or raises some error.  *)
(***************************************************************************)
FuncOutcomes ==
    {Ok([kind |-> "val", id |-> v]) : v \in 1..2} \cup {Fail("error_a"), Fail("error_b")}

InitRetry ==
    /\ EnvInit
    /\ images = <<>>
    /\ imgbb_urls = <<>>
    /\ ocr_texts = <<>>
    /\ UrlInit
    /\ meter = MeterOff
    /\ uploaded = NoFile
    /\ i = 0
    /\ full_text = <<>>
    /\ presented = NoOutput
    /\ recovered = NoOutput
    /\ resumeShown = FALSE
    /\ runOcr = FALSE
    /\ output_dir = NoDir
    /\ pubCalled = {}
    /\ recCalled = {}
    /\ failedPage = 0
    /\ runFailures = FALSE
    /\ startUrls = <<>>
    /\ startTexts = <<>>
    /\ prev = NoPrev
    /\ pc = "retry"
    /\ \E m \in 1..MaxAttemptsArg, d \in 0..MaxDelayArg : retry = NewFrame(m, d)

\* one pass of the for loop: func() is called and returns or raises
RetryCall ==
    /\ UNCHANGED envVars
    /\ UNCHANGED meter
    /\ UNCHANGED runInputs
    /\ pc = "retry"
    /\ retry.status = "running"
    /\ \E out \in FuncOutcomes : retry' = RetryStep(retry, out)
    /\ UNCHANGED <<pc, uploaded, i, full_text, presented, recovered, resumeShown>>
    /\ UNCHANGED sessionVars
    /\ UNCHANGED obsVars
    /\ UNCHANGED urlVars

NextRetry == RetryCall

SpecRetry == InitRetry /\ [][NextRetry]_vars

(***************************************************************************)
(* The "Paste Image URL" flow.                                             *)
(***************************************************************************)
Https == <<"h", "t", "t", "p", "s", ":", "/", "/">>

Whitespace == {" ", "\t", "\n", "\r"}

\* str.split(sep) from position k on, cur being the entry read so far
RECURSIVE SplitFrom(_, _, _, _)
SplitFrom(s, sep, k, cur) ==
    IF k > Len(s) THEN <<cur>>
    ELSE IF s[k] = sep THEN <<cur>> \o SplitFrom(s, sep, k + 1, <<>>)
    ELSE SplitFrom(s, sep, k + 1, Append(cur, s[k]))

Split(s, sep) == SplitFrom(s, sep, 1, <<>>)

\* str.splitlines(): no entry for the empty string, none after a final
\* line break (the only line break of the model's alphabet is "\n")
SplitLines(s) ==
    LET parts == Split(s, "\n") IN
    IF parts[Len(parts)] = <<>> THEN SubSeq(parts, 1, Len(parts) - 1) ELSE parts

RECURSIVE LStrip(_)
LStrip(s) ==
    IF s # <<>> /\ s[1] \in Whitespace THEN LStrip(Tail(s)) ELSE s

RECURSIVE RStrip(_)
RStrip(s) ==
    IF s # <<>> /\ s[Len(s)] \in Whitespace THEN RStrip(SubSeq(s, 1, Len(s) - 1)) ELSE s

\* str.strip()
Strip(s) == RStrip(LStrip(s))

\* str.startswith(prefix)
StartsWith(s, prefix) ==
    /\ Len(s) >= Len(prefix)
    /\ SubSeq(s, 1, Len(prefix)) = prefix

\* variant of KeepEntry: the prefix is tested on the untrimmed entry
KeepEntry_NoStrip(e) == StartsWith(e, Https)

\* the test of the comprehension: url.strip().startswith("https://")
KeepEntry(e) == StartsWith(Strip(e), Https)

\* [url.strip() for url in part.split(",") if url.strip().startswith("https://")]
RECURSIVE KeptOf(_)
KeptOf(entries) ==
    IF entries = <<>> THEN <<>>
    ELSE (IF KeepEntry(Head(entries)) THEN <<Strip(Head(entries))>> ELSE <<>>)
         \o KeptOf(Tail(entries))

RECURSIVE KeptOfLines(_)
KeptOfLines(lines) ==
    IF lines = <<>> THEN <<>>
    ELSE KeptOf(Split(Head(lines), ",")) \o KeptOfLines(Tail(lines))

\* urls = [url.strip() for part in image_urls.splitlines()
\*         for url in part.split(",") if url.strip().startswith("https://")]
FilterUrls(text) == KeptOfLines(SplitLines(text))

\* the text OCR returns for a pasted URL
TextOfUrl(u) == [kind |-> "txt", src |-> u]

\* variant of AfterUrlError: the loop is left at the first failing URL
AfterUrlError_Break(n, count) == count + 1

\* the except branch of the URL loop reports the error and the for loop
\* goes on with the next URL; n is the failed URL's 1-based index
AfterUrlError(n, count) == n + 1

\* Entries a user may type between separators, each with what the filter
\* is to make of it: kept as `entry`, or dropped.
Pieces ==
    { [raw |-> <<"h", "t", "t", "p", "s", ":", "/", "/", "a", ".", "p", "n", "g">>, keep |-> TRUE, entry |-> <<"h", "t", "t", "p", "s", ":", "/", "/", "a", ".", "p", "n", "g">>],
      [raw |-> <<" ", "n", "o", "t", "-", "a", "-", "u", "r", "l">>, keep |-> FALSE, entry |-> <<>>],
      [raw |-> <<"h", "t", "t", "p", "s", ":", "/", "/", "b", ".", "p", "n", "g">>, keep |-> TRUE, entry |-> <<"h", "t", "t", "p", "s", ":", "/", "/", "b", ".", "p", "n", "g">>],
      [raw |-> <<" ", "h", "t", "t", "p", "s", ":", "/", "/", "c", " ", "\t">>, keep |-> TRUE, entry |-> <<"h", "t", "t", "p", "s", ":", "/", "/", "c">>],
      [raw |-> <<"h", "t", "t", "p", ":", "/", "/", "d">>, keep |-> FALSE, entry |-> <<>>],
      [raw |-> <<>>, keep |-> FALSE, entry |-> <<>>] }

Separators == {",", "\n"}

\* what is typed: entries, each but the first preceded by a separator
TypedItem == [piece : Pieces, sep : Separators]

RECURSIVE TextOfTyped(_)
TextOfTyped(t) ==
    IF t = <<>> THEN <<>>
    ELSE IF Len(t) = 1 THEN t[1].piece.raw
    ELSE TextOfTyped(SubSeq(t, 1, Len(t) - 1)) \o <<t[Len(t)].sep>> \o t[Len(t)].piece.raw

\* every input of 1..MaxEntries entries (the first entry's separator is unused)
TypedInputs ==
    UNION { { t \in [1..n -> TypedItem] : t[1].sep = "," } : n \in 1..MaxEntries }

\* a fresh session in which the user has typed some input into the text area
InitUrl ==
    /\ EnvInit
    /\ images = <<>>
    /\ imgbb_urls = <<>>
    /\ ocr_texts = <<>>
    /\ RunInit
    /\ meter = MeterOff
    /\ typed \in TypedInputs
    /\ image_urls = <<>>
    /\ urls = <<>>
    /\ idx = 0
    /\ urlOutputs = <<>>
    /\ warned = FALSE
    /\ urlCalled = {}

\* end of the for loop over urls, or the next URL's run_ocr_on_image_url
UrlAdvance(next) ==
    /\ idx' = next
    /\ IF next > Len(urls)
       THEN pc' = "done" /\ retry' = IdleFrame
       ELSE pc' = "url_ocr" /\ retry' = NewFrame(DefaultMaxAttempts, DefaultDelay)

\* A script run with the "Paste Image URL" input type: the text area holds
\* what was typed; `resumeClick` says the Resume button was pressed, `click`
\* that the Run OCR button was.
StartUrlRun(resumeClick, click) ==
    /\ UNCHANGED envVars
    /\ UNCHANGED meter
    /\ RunOver
    /\ ResumeButton(resumeClick)
    /\ NoPdfRun
    /\ click => ButtonShown
    /\ runOcr' = click
    /\ output_dir' = NoDir
    /\ UNCHANGED typed
    /\ image_urls' = TextOfTyped(typed)
    /\ urlOutputs' = <<>>
    /\ urlCalled' = {}
    /\ IF click
       THEN LET list == FilterUrls(TextOfTyped(typed)) IN
            /\ urls' = list
            /\ warned' = (list = <<>>)
            /\ idx' = 1
            /\ IF list = <<>>
               THEN pc' = "done" /\ retry' = IdleFrame
               ELSE pc' = "url_ocr" /\ retry' = NewFrame(DefaultMaxAttempts, DefaultDelay)
       ELSE /\ urls' = <<>>
            /\ warned' = FALSE
            /\ idx' = 0
            /\ pc' = "done"
            /\ retry' = IdleFrame
    /\ UNCHANGED sessionVars

\* one execution of the OCR task under retry, for the URL at idx
UrlOcrAttempt ==
    /\ UNCHANGED envVars
    /\ UNCHANGED meter
    /\ UNCHANGED runInputs
    /\ pc = "url_ocr"
    /\ retry.status = "running"
    /\ \E raised \in (IF api_key = "set" THEN BOOLEAN ELSE {TRUE}) :
         LET resp == [raised |-> raised, text |-> TextOfUrl(urls[idx])]
             out == OcrTask(resp)
             fr == RetryStep(retry, out)
         IN /\ urlCalled' = urlCalled \cup {idx}
            /\ CASE fr.status = "returned" ->
                      \* st.success, st.text_area, st.download_button
                      /\ urlOutputs' = Append(urlOutputs,
                            [idx |-> idx, kind |-> "text", text |-> fr.value, error |-> "none"])
                      /\ UrlAdvance(idx + 1)
                 [] fr.status = "raised" ->
                      \* st.error
                      /\ urlOutputs' = Append(urlOutputs,
                            [idx |-> idx, kind |-> "error", text |-> NoValue, error |-> fr.error])
                      /\ UrlAdvance(AfterUrlError(idx, Len(urls)))
                 [] OTHER ->
                      /\ retry' = fr
                      /\ UNCHANGED <<pc, idx, urlOutputs>>
    /\ UNCHANGED <<typed, image_urls, urls, warned>>
    /\ UNCHANGED <<uploaded, i, full_text, presented, recovered, resumeShown>>
    /\ UNCHANGED sessionVars
    /\ UNCHANGED obsVars

NextUrl ==
    \/ \E resumeClick \in BOOLEAN, click \in BOOLEAN : StartUrlRun(resumeClick, click)
    \/ UrlOcrAttempt

SpecUrl == InitUrl /\ [][NextUrl]_vars


(***************************************************************************)
(* Properties.                                                             *)
(***************************************************************************)
InPdfRun ==
    /\ uploaded.kind = "pdf"
    /\ pc \in {"loop", "upload", "ocr", "present", "done", "crashed", "name_error"}

PdfRunOver == uploaded.kind = "pdf" /\ pc \in {"done", "crashed", "name_error"}

\* the run has come to the end of the "Upload PDF" branch
PdfBranchOver == uploaded.kind = "pdf" /\ pc \in {"done", "name_error"}

\* number of pages that were Done when the run started
StartDone == Min(Len(startUrls), Len(startTexts))

\* the sections of pages 1..n, with the texts the session holds for them
SectionsOf(n) == [k \in 1..n |-> [page |-> k, text |-> ocr_texts[k]]]

\* C1: in every reachable session state the URL list is no longer than the
\* image list and the text list no longer than the URL list.
C1_ListLengthsOrdered ==
    /\ Len(imgbb_urls) <= Len(images)
    /\ Len(ocr_texts) <= Len(imgbb_urls)

\* C2: in a pipeline run no publish call and no recognize call is made for a
\* page that was Done when the run started, and the text accumulated for
\* such a page is the one the session held for it.
C2_DonePagesSkipped ==
    InPdfRun =>
        \A p \in 1..StartDone :
            /\ p \notin pubCalled
            /\ p \notin recCalled
            /\ p <= Len(full_text) => full_text[p].text = startTexts[p]

\* a rerun has taken a page from the cache and gone on to process a new one
C2_Witness ==
    /\ PdfRunOver
    /\ StartDone >= 1
    /\ Len(full_text) > StartDone
    /\ pubCalled # {}

\* C3: once a page has failed in a run, no call has been made for any later
\* page, the pages before it are still recorded as they were, and the text
\* accumulated - and presented at the end - is that of the pages before it.
C3_AbortOnFirstFailure ==
    (InPdfRun /\ failedPage # 0) =>
        /\ \A p \in pubCalled \cup recCalled : p <= failedPage
        /\ Len(imgbb_urls) >= failedPage - 1
        /\ Len(ocr_texts) >= failedPage - 1
        /\ SubSeq(ocr_texts, 1, Len(startTexts)) = startTexts
        /\ SubSeq(imgbb_urls, 1, Len(startUrls)) = startUrls
        /\ full_text = SectionsOf(failedPage - 1)
        /\ pc \in {"present", "done", "name_error"}
        /\ PdfBranchOver => presented = (IF failedPage > 1 THEN Output(full_text) ELSE NoOutput)

\* a 3-page document in a fresh session, page 2 failing for good
C3_Witness ==
    /\ pc = "done"
    /\ uploaded.kind = "pdf"
    /\ Len(images) = 3
    /\ startUrls = <<>>
    /\ failedPage = 2
    /\ presented.shown
    /\ Len(presented.text) = 1
    /\ 3 \notin pubCalled

\* C4: when func fails on its first k calls, k < max_attempts, and succeeds
\* on call k+1, retry has returned that call's value with no error after
\* exactly k+1 calls; no call follows a success.
C4_RetryReturnsFirstSuccess ==
    (pc = "retry") =>
        LET log == retry.log
            n == Len(log)
        IN /\ \A k \in 1..n : log[k].ok => k = n
           /\ (n >= 1 /\ log[n].ok) =>
                 /\ retry.status = "returned"
                 /\ retry.value = log[n].val
                 /\ retry.error = "none"
                 /\ n <= retry.max
           /\ retry.status = "returned" => (n >= 1 /\ log[n].ok)

\* two failures, then a success on the third and last attempt
C4_Witness ==
    /\ pc = "retry"
    /\ retry.status = "returned"
    /\ retry.max = 3
    /\ Len(retry.log) = 3
    /\ ~retry.log[1].ok
    /\ ~retry.log[2].ok

\* C5: when func fails on every one of max_attempts calls, retry has called
\* it exactly max_attempts times and raised the error of the last call as
\* it is; it raises in no other case and never calls func more often.
C5_RetryRaisesLastError ==
    (pc = "retry") =>
        LET log == retry.log
            n == Len(log)
            allFailed == \A k \in 1..n : ~log[k].ok
        IN /\ n <= retry.max
           /\ (n = retry.max /\ allFailed) =>
                 /\ retry.status = "raised"
                 /\ retry.error = log[n].err
                 /\ retry.value = NoValue
           /\ retry.status = "raised" => (n = retry.max /\ allFailed)
           /\ (n < retry.max /\ allFailed) => retry.status = "running"

\* three failures with different errors: the last one is raised
C5_Witness ==
    /\ pc = "retry"
    /\ retry.status = "raised"
    /\ retry.max = 3
    /\ Len(retry.log) = 3
    /\ retry.log[1].err # retry.log[3].err
    /\ retry.error = retry.log[3].err

\* C6: a page whose URL is recorded but whose text is not is not taken for
\* Done: a run that comes to it invokes the recognizer for it.
C6_PublishedPageRecognized ==
    (PdfRunOver /\ failedPage = 0
       /\ Len(startUrls) > Len(startTexts) /\ Len(images) > Len(startTexts)) =>
        (Len(startTexts) + 1) \in recCalled

\* C7: a second run over the same document, neither run seeing a remote
\* failure, accumulates and presents what the first did, leaves the URL and
\* text lists as the first left them, and makes no publish or recognize call.
C7_ResumeIdempotent ==
    (PdfRunOver /\ prev.ran /\ ~runFailures) =>
        ((prev.doc = uploaded /\ ~prev.failures) =>
            /\ full_text = prev.result
            /\ presented = prev.shown
            /\ (pc = "crashed") = (prev.ended = "crashed")
            /\ imgbb_urls = prev.urls
            /\ ocr_texts = prev.texts
            /\ pubCalled = {}
            /\ recCalled = {})

\* the first run published and recognized all three pages of a document,
\* the second run is over
C7_Witness ==
    /\ pc = "done"
    /\ uploaded.kind = "pdf"
    /\ prev.ran
    /\ prev.doc = uploaded
    /\ ~prev.failures
    /\ ~runFailures
    /\ prev.pub = {1, 2, 3}
    /\ prev.rec = {1, 2, 3}
    /\ Len(full_text) = 3

\* C8: the URL flow attempts recognition for every URL of the filtered list
\* in list order whatever the outcome of the others, and shows for each URL
\* its own text or its own error.
C8_UrlsIsolated ==
    /\ (pc = "url_ocr") =>
          /\ idx \in 1..Len(urls)
          /\ Len(urlOutputs) = idx - 1
          /\ 1..(idx - 1) \subseteq urlCalled
          /\ urlCalled \subseteq 1..idx
    /\ (pc = "done" /\ idx >= 1) =>
          /\ Len(urlOutputs) = Len(urls)
          /\ urlCalled = 1..Len(urls)
    /\ \A k \in 1..Len(urlOutputs) :
          /\ urlOutputs[k].idx = k
          /\ urlOutputs[k].kind \in {"text", "error"}
          /\ urlOutputs[k].kind = "text" => urlOutputs[k].text = TextOfUrl(urls[k])
          /\ urlOutputs[k].kind = "error" => urlOutputs[k].error = "ocr_error"

\* three URLs, the second failing for good: texts for 1 and 3, an error for 2
C8_Witness ==
    /\ pc = "done"
    /\ Len(urls) = 3
    /\ Len(urlOutputs) = 3
    /\ urlOutputs[1].kind = "text"
    /\ urlOutputs[2].kind = "error"
    /\ urlOutputs[3].kind = "text"

\* C9: pages are handled one at a time in ascending order: a call for a page
\* is made only when every page before it has its section in the accumulated
\* text, and the sections are those of pages 1..k in order.
C9_PagesInOrder ==
    InPdfRun =>
        /\ \A k \in 1..Len(full_text) : full_text[k].page = k
        /\ \A p \in pubCalled \cup recCalled : p <= Len(full_text) + 1
        /\ pc \in {"upload", "ocr"} => (i = Len(full_text) /\ (i + 1) \in 1..Len(images))
        /\ pc = "ocr" => (i + 1) \in pubCalled
        /\ Len(full_text) <= Len(images)

\* a run that took page 1 from the cache, needed retries, and handled 3 pages
C9_Witness ==
    /\ pc = "done"
    /\ uploaded.kind = "pdf"
    /\ Len(full_text) = 3
    /\ runFailures
    /\ pubCalled = {2, 3}
    /\ recCalled = {2, 3}

\* the entries of what was typed that the filter is to keep, trimmed
RECURSIVE ExpectedUrls(_)
ExpectedUrls(t) ==
    IF t = <<>> THEN <<>>
    ELSE (IF Head(t).piece.keep THEN <<Head(t).piece.entry>> ELSE <<>>)
         \o ExpectedUrls(Tail(t))

\* C10: the list the Run OCR handler works on is exactly the typed entries
\* (split on newlines and commas, trimmed) that start with "https://", in
\* input order; the warning is shown exactly when that list is empty.
C10_UrlFilter ==
    (idx >= 1) =>
        /\ urls = ExpectedUrls(typed)
        /\ warned = (urls = <<>>)

\* "https://a.png, not-a-url\nhttps://b.png" gives the two URLs
C10_Witness ==
    /\ idx >= 1
    /\ Len(typed) = 3
    /\ image_urls = <<"h", "t", "t", "p", "s", ":", "/", "/", "a", ".", "p", "n", "g", ",", " ", "n", "o", "t", "-", "a", "-", "u", "r", "l", "\n", "h", "t", "t", "p", "s", ":", "/", "/", "b", ".", "p", "n", "g">>
    /\ urls = << <<"h", "t", "t", "p", "s", ":", "/", "/", "a", ".", "p", "n", "g">>, <<"h", "t", "t", "p", "s", ":", "/", "/", "b", ".", "p", "n", "g">> >>

\* number of entries of trace t that are e
RECURSIVE CountOf(_, _)
CountOf(t, e) ==
    IF t = <<>> THEN 0 ELSE (IF Head(t) = e THEN 1 ELSE 0) + CountOf(Tail(t), e)

\* C15: retry waits `delay` once after each failed attempt that another
\* attempt follows, and never after a success or after the last failed
\* attempt: a call that ends after n attempts has waited n-1 times, every
\* wait standing between two attempts.
C15_RetryWaitsBetweenAttempts ==
    (pc = "retry") =>
        LET n == Len(retry.log)
            t == retry.trace
            over == retry.status \in {"returned", "raised"}
        IN /\ CountOf(t, "call") = n
           /\ CountOf(t, "sleep") = retry.sleeps
           /\ retry.slept = retry.sleeps * retry.delay
           /\ retry.sleeps = (IF over THEN n - 1 ELSE n)
           /\ \A k \in 1..Len(t) :
                 t[k] = "sleep" =>
                    /\ k > 1
                    /\ t[k - 1] = "call"
                    /\ ~retry.log[CountOf(SubSeq(t, 1, k), "call")].ok
                    /\ k < Len(t) => t[k + 1] = "call"
                    /\ k = Len(t) => retry.status = "running"
           /\ over => t[Len(t)] = "call"

\* exhausted after three failures: two waits of two seconds each
C15_Witness ==
    /\ pc = "retry"
    /\ retry.status = "raised"
    /\ retry.max = 3
    /\ retry.delay = 2
    /\ retry.sleeps = 2
    /\ retry.slept = 4
    /\ retry.trace = <<"call", "sleep", "call", "sleep", "call">>

PublishErrors == {"request_error", "upload_failed"}

\* C12: a publish attempt whose request fails and one whose response says
\* success = false are handled alike: either is one failed attempt of the
\* retry, followed by another attempt while the budget lasts and by the
\* failure of the page when it is spent, and neither records a URL; the
\* only step that records a URL records exactly the URL of the page's image.
C12_PublishFailuresAlike ==
    [][ (pc = "upload") =>
          /\ Len(retry.log) = retry.attempt - 1
          /\ \A k \in 1..Len(retry.log) :
                ~retry.log[k].ok /\ retry.log[k].err \in PublishErrors
          /\ \/ /\ imgbb_urls' = Append(imgbb_urls, UrlOf(images[i + 1]))
                /\ pc' = "ocr"
                /\ failedPage' = failedPage
             \/ /\ imgbb_urls' = imgbb_urls
                /\ retry.attempt < DefaultMaxAttempts
                /\ pc' = "upload"
                /\ retry'.attempt = retry.attempt + 1
                /\ retry'.log[retry.attempt].err \in PublishErrors
                /\ failedPage' = failedPage
             \/ /\ imgbb_urls' = imgbb_urls
                /\ retry.attempt = DefaultMaxAttempts
                /\ pc' = "present"
                /\ failedPage' = i + 1 ]_vars

\* a publish call that has failed once in each way and is about to be tried
\* a third time
C12_Witness ==
    /\ pc = "upload"
    /\ retry.attempt = 3
    /\ Len(retry.log) = 2
    /\ {retry.log[1].err, retry.log[2].err} = PublishErrors
    /\ Len(imgbb_urls) = i

\* C16: the text accumulated under the marker of page k in a run was
\* recognized from page k of the document uploaded in that run.
C16_TextFromUploadedPage ==
    InPdfRun =>
        \A k \in 1..Len(full_text) :
            /\ full_text[k].text.doc = uploaded.id
            /\ full_text[k].text.page = full_text[k].page

\* C17: the Run OCR handler reads the URL text input only in runs in which
\* it has been assigned: no script run, whichever input type is selected,
\* ends with the handler's uncaught NameError.
C17_RunOcrInputDefined == pc # "name_error"

\* C13: with a credential missing the program stops with a configuration
\* error when it starts: no publish or recognize call is ever made.
C13_MissingKeyFailsFast ==
    (api_key = "unset" \/ imgbb_api_key = "unset") =>
        /\ pubCalled = {}
        /\ recCalled = {}
        /\ urlCalled = {}

\* C14: after the conversion of an N-page document the session's images are
\* exactly N files, the k-th being page_k.png of the run's output directory
\* and showing page k of the uploaded document.
C14_OneImagePerPage ==
    (uploaded.kind = "pdf" /\ pc \notin {"idle", "convert"}) =>
        /\ Len(images) = PageCount(uploaded.id)
        /\ \A k \in 1..Len(images) :
              /\ images[k].kind = "img"
              /\ images[k].dir = output_dir
              /\ images[k].name = k
              /\ images[k].doc = uploaded.id
              /\ images[k].page = k

\* a 3-page document converted in a later run of the session, into another
\* directory than the run before
C14_Witness ==
    /\ uploaded.kind = "pdf"
    /\ pc = "loop"
    /\ i = 0
    /\ Len(images) = 3
    /\ imgbb_urls # <<>>
    /\ output_dir = OutputDir("second_b")

(***************************************************************************)
(* A session in which the user switches between the two input types: the   *)
(* runs of the "Upload PDF" branch and of the "Paste Image URL" branch     *)
(* share st.session_state.                                                 *)
(***************************************************************************)
\* what the text area holds in such a session: one URL with blanks around it
AppInputs ==
    { t \in TypedInputs : Len(t) = 1 /\ t[1].piece.entry = Https \o <<"c">> }

InitApp ==
    /\ EnvInit
    /\ images = <<>>
    /\ imgbb_urls = <<>>
    /\ ocr_texts = <<>>
    /\ RunInit
    /\ meter = MeterOff
    /\ typed \in AppInputs
    /\ image_urls = <<>>
    /\ urls = <<>>
    /\ idx = 0
    /\ urlOutputs = <<>>
    /\ warned = FALSE
    /\ urlCalled = {}

NextApp == Next \/ NextUrl

SpecApp == InitApp /\ [][NextApp]_vars

IsPrefix(s, t) == Len(s) <= Len(t) /\ SubSeq(t, 1, Len(s)) = s

\* C11: no step of a session (a script start with or without the Resume
\* button pressed, a conversion, a page of a run that completes or aborts, a
\* URL-flow run) changes or removes an entry of imgbb_urls or ocr_texts;
\* each list after the step starts with the list before it.
C11_EntriesOnlyAppended ==
    [][/\ IsPrefix(imgbb_urls, imgbb_urls')
       /\ IsPrefix(ocr_texts, ocr_texts')]_vars

\* a URL-flow run that recognized its URL and displayed the recovered
\* session, in a session whose PDF runs left two published pages and one
\* recognized (a run was aborted in the recognition of page 2)
C11_Witness ==
    /\ pc = "done"
    /\ urlOutputs # <<>>
    /\ urlCalled = {1}
    /\ recovered.shown
    /\ Len(imgbb_urls) = 2
    /\ Len(ocr_texts) = 1

(***************************************************************************)
(* A metered session of at most MaxRuns script runs with the "Upload PDF"  *)
(* input type.  Every step of a run is a step of the one script thread,    *)
(* which goes on as long as it can: a remote call returns or raises.       *)
(***************************************************************************)
InitCount ==
    /\ EnvInit
    /\ images = <<>>
    /\ imgbb_urls = <<>>
    /\ ocr_texts = <<>>
    /\ RunInit
    /\ UrlInit
    /\ meter = MeterZero(0)

RunStep ==
    \/ ConvertPdf
    \/ ConvertFails
    \/ PageCached
    \/ PageIndexError
    \/ PageBeginUpload
    \/ UploadAttempt
    \/ OcrAttempt
    \/ LoopExit
    \/ Present

SpecCount == InitCount /\ [][Next]_vars /\ WF_vars(RunStep)

\* N of the current run: the pages of the uploaded document
PagesOfRun == IF uploaded.kind = "pdf" THEN PageCount(uploaded.id) ELSE 0

\* C18: in a run over an N-page document each page has at most one retry()
\* of the upload task and one of the OCR task (none for a page beyond N),
\* no retry() comes to a fourth attempt, the run makes at most 6N remote
\* calls and 4N waits in all, and a run that has started comes to its end.
C18_RunTerminatesBounded ==
    /\ [](/\ \A p \in 1..MaxPages :
               /\ meter.pub[p] <= 1
               /\ meter.rec[p] <= 1
               /\ p > PagesOfRun => meter.pub[p] = 0 /\ meter.rec[p] = 0
          /\ retry.attempt <= DefaultMaxAttempts
          /\ meter.calls <= 6 * PagesOfRun
          /\ meter.waits <= 4 * PagesOfRun)
    /\ (~RunOver) ~> RunOver

\* a run over a 3-page document is over in which every page was published
\* at the third attempt and recognized at the third attempt
C18_Witness ==
    /\ pc = "done"
    /\ uploaded.kind = "pdf"
    /\ PagesOfRun = 3
    /\ \A p \in 1..3 : meter.pub[p] = 1 /\ meter.rec[p] = 1
    /\ meter.calls = 18
    /\ meter.waits = 12
    /\ Len(ocr_texts) = 3

=============================================================================
